---- MODULE Spec2Model ----
(***************************************************************************)
(* A model of the go-load-balancer: the server pool (core/pool.go), the    *)
(* backend record (core/backend.go), the request router lbHandler and the  *)
(* health monitor healthCheck (cmd/lb/main.go).                            *)
(*                                                                         *)
(* Backends are identified by their index in ServerPool.Backends, 0-based  *)
(* as in the Go code; a nil *Backend is Nil.                               *)
(***************************************************************************)
EXTENDS Integers, Naturals, Sequences, FiniteSets, Bags, TLC

\* ------------------------------------------------------------------ bounds
MaxBackends == 3      \* the longest pool AddBackend builds
NumReqs == 1          \* request-handling goroutines alive at a time
UintBits == 3         \* width of the model's unsigned integers (uint64 in Go)
NumThreads == 2       \* goroutines calling IncConn / DecConn concurrently
MaxOps == 2           \* calls each of them makes when they call freely
MaxJobs == 5          \* updateBackendStats goroutines that may run at once
MaxLiveJobs == 1      \* the same, where the monitor's flag writes are followed
MaxMonitored == 2     \* the longest pool the health monitor is run on
NumSel == 2           \* goroutines calling GetNextPeer at the same time
TicksPerSecond == 2   \* clock readings per second
MaxTime == 4          \* the last clock reading, in ticks

UintMod == 2 ^ UintBits
UintMax == UintMod - 1          \* ^uint64(0)

Nil == -1                       \* a nil *Backend
Reqs == 1 .. NumReqs
Slots == 0 .. (MaxBackends - 1)

Favicon == "/favicon.ico"
Paths == {"/", Favicon}
NoResp == 0                     \* nothing written to the ResponseWriter yet
StatusOK == 200
StatusNotFound == 404
StatusServiceUnavailable == 503
StatusInternalServerError == 500
NoConn == 0                     \* the backend accepts no TCP connection
NumWorkers == 3                 \* the documented size of the stats worker pool
ReportedMem == 5000             \* the memory_usage a healthy backend reports
StoredMem == 100                \* a memory usage stored by an earlier refresh

VARIABLES
    \* core.ServerPool and core.Backend
    nBackends,      \* len(s.Backends)
    current,        \* s.current, the rotation cursor (uint64)
    alive,          \* Backend.Alive, by pool index
    connCount,      \* Backend.ConnCount, by pool index
    started,        \* wiring is over: the pool is being used
    startTime,      \* Backend.StartTime, by pool index (seconds)
    memoryUsage,    \* Backend.MemoryUsage, by pool index (bytes)
    now,            \* time.Now() (seconds)
    streak,         \* history: when each backend last went from dead to alive
    \* one lbHandler goroutine per request slot
    rpc,            \* where the handler is
    rpath,          \* r.URL.Path
    rnext,          \* GetNextPeer's local next
    ri,             \* GetNextPeer's loop variable i
    rpeer,          \* the backend GetNextPeer chose (Nil: none)
    rresp,          \* status written to the client (NoResp: none)
    rstable,        \* history: no SetAlive ran since this GetNextPeer call began
    rsolo,          \* history: no other call wrote the cursor since this one began
    \* a caller of GetLeastConnPeer
    lcCalled,       \* GetLeastConnPeer has been called
    lcPeer,         \* what that call returned
    \* callers of the uptime and statistics functions
    upFor,          \* the backend GetUpTimeInSeconds was called on (Nil: no call)
    upRes,          \* what that call returned
    puCalled,       \* the pool's GetUpTimeInSeconds and GetUpTime have been called
    puSecs,         \* what the pool's GetUpTimeInSeconds returned
    puText,         \* what the pool's GetUpTime returned
    stCalled,       \* GetStats has been called
    stats,          \* what that call returned
    \* callers that use the pool directly
    seqLog,         \* history: the latest GetNextPeer calls made one after
                    \* another, each with the cursor it found and its result
    \* goroutines calling GetNextPeer at the same time
    spc,            \* where each call is: "idle", "scan", "store", "returned"
    snext,          \* GetNextPeer's local next
    si,             \* GetNextPeer's loop variable i
    speer,          \* the backend the call returns (Nil: nil)
    sval,           \* history: the cursor value AddUint64 gave the call
    sseen,          \* history: the pool indices whose liveness the call read
    sreads,         \* history: how many liveness reads the call made
    ssteady,        \* history: the backends alive ever since the call began
    srec,           \* history: the rotation is on record (all alive, no wrap)
    served,         \* history: the backend returned for each cursor value
    sdup,           \* history: a cursor value was given to two calls
    \* a goroutine calling GetLeastConnPeer while liveness changes
    lpc,            \* where the call is: "idle", "loop", "count", "returned"
    lk,             \* the index the range loop is at
    lbest,          \* GetLeastConnPeer's local best (Nil: nil)
    lmin,           \* GetLeastConnPeer's local min
    lsteady,        \* history: the backends alive ever since the call began
    \* a goroutine calling the pool's GetUpTime while liveness changes
    gpc,            \* where the call is: "idle", "alive", "uptime", "returned"
    gk,             \* the index the range loop is at
    gtotal,         \* GetUpTime's local totalUpTime
    gcount,         \* GetUpTime's local aliveCount
    gres,           \* what the call returned
    \* a goroutine calling GetStats while backends are written
    tpc,            \* where the call is: "idle", "alive", "uptime", "memory"
    tk,             \* the index the range loop is at
    talive,         \* what b.IsAlive() returned for the snapshot being built
    tup,            \* what b.GetUpTime() returned for it
    \* goroutines calling IncConn / DecConn on backend 0
    cpc,            \* where each goroutine is
    cold,           \* DecConn's local copy of the counter
    cops,           \* calls each goroutine has completed
    incDone,        \* history: IncConn calls completed
    decDone,        \* history: DecConn calls that swapped the counter down
    scenario,       \* "free": any calls; "phased": N IncConn, a barrier, N DecConn
    \* the health monitor
    hcPc,           \* where healthCheck is
    hcIdx,          \* the backend the inner loop is at
    hcAlive,        \* the local alive: what isBackendAlive returned
    hcSeen,         \* history: how the backend answered that probe
    srv,            \* how each backend process answers right now
    health,         \* the body each backend process serves on /health
    probed,         \* history: the result of the latest probe of each backend
    jobs,           \* updateBackendStats goroutines running, by backend
    held,           \* the answers their http.Get returned and they work on
    cancelled,      \* the shared cancellation signal has been raised
    hcLog           \* history: what the check at hand has logged and called

beVars == <<startTime, memoryUsage, now, streak>>
poolVars == <<nBackends, current, alive, connCount, started, beVars>>
reqVars == <<rpc, rpath, rnext, ri, rpeer, rresp, rstable, rsolo>>
qVars == <<upFor, upRes, puCalled, puSecs, puText, stCalled, stats>>
selVars == <<spc, snext, si, speer, sval, sseen, sreads, ssteady,
             srec, served, sdup>>
lcsVars == <<lpc, lk, lbest, lmin, lsteady>>
guVars == <<gpc, gk, gtotal, gcount, gres>>
gsVars == <<tpc, tk, talive, tup>>
tVars == <<seqLog, gsVars, selVars, lcsVars, guVars>>
lcVars == <<lcCalled, lcPeer, qVars, tVars>>
cntVars == <<cpc, cold, cops, incDone, decDone, scenario>>
hcVars == <<hcPc, hcIdx, hcAlive, hcSeen, srv, health, probed, jobs, held,
           cancelled, hcLog>>
vars == <<poolVars, reqVars, lcVars, cntVars, hcVars>>
notRouter == <<lcVars, cntVars, hcVars>>

Backends == 0 .. (nBackends - 1)

\* ---------------------------------------------------------- core.Backend
IsAlive(b) == alive[b]

GetConnCount(b) == connCount[b]

\* ------------------------------------------------------- core.ServerPool
AddUintNoWrap(x, d) == x + d

AddUintStuck(x, d) == x

\* atomic.AddUint64(&s.current, 1): the new value, wrapping at the width
AddUint(x, d) == (x + d) % UintMod

IndexOfStale(cur) == current % nBackends

\* NextIndex: the new cursor taken modulo the pool length
IndexOf(cur) == cur % nBackends

ScanLimitNoWrap(next) == nBackends

ScanLimitLong(next) == nBackends + next + 1

\* l := len(s.Backends) + next
ScanLimit(next) == nBackends + next

\* ------------------------------------------------------------- wiring
\* The largest time.Duration, in ticks. Go's is an int64 of nanoseconds
\* (9223372036.85 s); the model's is narrower in the same way as its uint64.
MaxDuration == 9223 * TicksPerSecond + 1

\* The zero time.Time, the StartTime of a Backend built without one: further
\* in the past than a Duration reaches.
ZeroTime == 0 - 7 * MaxDuration

\* StartTime: time.Now().Add(-10 * time.Second)
TenSeconds == 10 * TicksPerSecond

\* The process has just started: the clock reads 0 and no backend has reported
\* its memory yet.
InitFields ==
    /\ startTime = [b \in Slots |-> 0]
    /\ memoryUsage = [b \in Slots |-> 0]
    /\ now = 0
    /\ streak = [b \in Slots |-> 0]

InitPool ==
    /\ nBackends = 0
    /\ current = 0
    /\ alive = [b \in Slots |-> FALSE]
    /\ connCount = [b \in Slots |-> 0]
    /\ started = FALSE
    /\ InitFields

InitReqs ==
    /\ rpc = [r \in Reqs |-> "idle"]
    /\ rpath = [r \in Reqs |-> "/"]
    /\ rnext = [r \in Reqs |-> 0]
    /\ ri = [r \in Reqs |-> 0]
    /\ rpeer = [r \in Reqs |-> Nil]
    /\ rresp = [r \in Reqs |-> NoResp]
    /\ rstable = [r \in Reqs |-> TRUE]
    /\ rsolo = [r \in Reqs |-> TRUE]

\* What a backend may serve on /health: a body that is not JSON (or whose
\* memory_usage is no number), a JSON object without the memory_usage field,
\* or a JSON object reporting m bytes.
BadJSON == [valid |-> FALSE, hasField |-> FALSE, mem |-> 0]
NoField == [valid |-> TRUE, hasField |-> FALSE, mem |-> 0]
Report(m) == [valid |-> TRUE, hasField |-> TRUE, mem |-> m]
MemValues == {StoredMem, ReportedMem}
HealthBodies == {BadJSON, NoField} \cup {Report(m) : m \in MemValues}

\* The text GetUpTime returns: "0s", or hours, minutes and seconds
ZeroS == [text |-> "0s", h |-> 0, m |-> 0, s |-> 0]

\* No uptime or statistics call has been made.
NoQueries ==
    /\ upFor = Nil
    /\ upRes = 0
    /\ puCalled = FALSE
    /\ puSecs = 0
    /\ puText = ZeroS
    /\ stCalled = FALSE
    /\ stats = << >>

\* No caller has used the pool directly.
Sels == 1 .. NumSel

NoCallers ==
    /\ seqLog = << >>
    /\ spc = [s \in Sels |-> "idle"]
    /\ snext = [s \in Sels |-> 0]
    /\ si = [s \in Sels |-> 0]
    /\ speer = [s \in Sels |-> Nil]
    /\ sval = [s \in Sels |-> 0]
    /\ sseen = [s \in Sels |-> {}]
    /\ sreads = [s \in Sels |-> 0]
    /\ ssteady = [s \in Sels |-> {}]
    /\ served = [v \in 0 .. UintMax |-> Nil]
    /\ sdup = FALSE
    /\ lpc = "idle"
    /\ lk = 0
    /\ lbest = Nil
    /\ lmin = 0
    /\ lsteady = {}
    /\ gpc = "idle"
    /\ gk = 0
    /\ gtotal = 0
    /\ gcount = 0
    /\ gres = ZeroS
    /\ tpc = "idle"
    /\ tk = 0
    /\ talive = FALSE
    /\ tup = ZeroS

InitLC ==
    lcCalled = FALSE /\ lcPeer = Nil /\ NoQueries /\ NoCallers /\ srec = FALSE

Threads == 1 .. NumThreads

InitCntIdle ==
    /\ cpc = [t \in Threads |-> "idle"]
    /\ cold = [t \in Threads |-> 0]
    /\ cops = [t \in Threads |-> 0]
    /\ incDone = 0
    /\ decDone = 0

InitCnt == InitCntIdle /\ scenario = "free"

InitHC ==
    /\ hcPc = "wait"
    /\ hcIdx = 0
    /\ hcAlive = FALSE
    /\ hcSeen = 0
    /\ srv = [b \in Slots |-> StatusOK]
    /\ health = [b \in Slots |-> Report(ReportedMem)]
    /\ probed = [b \in Slots |-> "none"]
    /\ jobs = [b \in Slots |-> 0]
    /\ held = [b \in Slots |-> EmptyBag]
    /\ cancelled = FALSE
    /\ hcLog = << >>

Init == InitPool /\ InitReqs /\ InitLC /\ InitCnt /\ InitHC

\* s.Backends = append(s.Backends, b): the pool takes the backend as its
\* caller built it, with the Alive flag a and the StartTime t it was given.
\* The function has no guard of its own (the pool's length is capped here).
AddBackend(a, t) ==
    /\ nBackends < MaxBackends
    /\ nBackends' = nBackends + 1
    /\ alive' = [alive EXCEPT ![nBackends] = a]
    /\ startTime' = [startTime EXCEPT ![nBackends] = t]
    /\ streak' = [streak EXCEPT ![nBackends] = t]
    /\ UNCHANGED <<current, connCount, started, memoryUsage, now, reqVars>>
    /\ UNCHANGED notRouter

WiringAnytime == TRUE

\* The callers of AddBackend: main's loop over the backend addresses, and the
\* first lines of a test, both of them before the pool is handed to anything
\* that uses it.
Wiring == ~started

\* Wiring ends and requests are served. The pool may still be empty here:
\* TestLbHandler calls lbHandler on core.ServerPool{}.
Serve ==
    /\ ~started
    /\ started' = TRUE
    /\ UNCHANGED <<nBackends, current, alive, connCount, beVars, reqVars>>
    /\ UNCHANGED notRouter

\* ---------------------------------------------------- Backend.SetAlive
NewStartTimeAlways(b, a) == IF a THEN now ELSE startTime[b]

\* if alive && !b.Alive { b.StartTime = time.Now() }
NewStartTime(b, a) == IF a /\ ~alive[b] THEN now ELSE startTime[b]

\* The health monitor's write of the liveness flag (healthCheck calls it only
\* with a value that differs from the stored one).
InSelection(r) == rpc[r] \in {"call", "scan", "store", "returned"}

SetAlive(b, a) ==
    /\ started
    /\ b \in Backends
    /\ alive[b] # a
    /\ alive' = [alive EXCEPT ![b] = a]
    /\ startTime' = [startTime EXCEPT ![b] = NewStartTime(b, a)]
    /\ streak' = [streak EXCEPT ![b] = IF ~alive[b] /\ a THEN now ELSE streak[b]]
    /\ rstable' = [r \in Reqs |-> IF InSelection(r) THEN FALSE ELSE rstable[r]]
    /\ ssteady' = [s \in Sels |-> ssteady[s] \ {b}]
    /\ lsteady' = lsteady \ {b}
    /\ UNCHANGED <<nBackends, current, connCount, started, memoryUsage, now,
                   rpc, rpath, rnext, ri, rpeer, rresp, rsolo>>
    /\ UNCHANGED <<lcCalled, lcPeer, qVars, seqLog, gsVars, guVars, cntVars, hcVars>>
    /\ UNCHANGED <<spc, snext, si, speer, sval, sseen, sreads, srec, served,
                   sdup, lpc, lk, lbest, lmin>>

\* ------------------------------------------------------------ lbHandler
IgnoresNoPath(p) == FALSE

\* if r.URL.Path == "/favicon.ico"
IgnoresPath(p) == p = Favicon

\* A request arrives. The favicon path is answered 404 at once; any other
\* path goes on to peer selection.
Receive(r, p) ==
    /\ started
    /\ rpc[r] = "idle"
    /\ rpath' = [rpath EXCEPT ![r] = p]
    /\ rpeer' = [rpeer EXCEPT ![r] = Nil]
    /\ rstable' = [rstable EXCEPT ![r] = TRUE]
    /\ rsolo' = [rsolo EXCEPT ![r] = TRUE]
    /\ IF IgnoresPath(p)
         THEN /\ rresp' = [rresp EXCEPT ![r] = StatusNotFound]
              /\ rpc' = [rpc EXCEPT ![r] = "done"]
         ELSE /\ rresp' = [rresp EXCEPT ![r] = NoResp]
              /\ rpc' = [rpc EXCEPT ![r] = "call"]
    /\ UNCHANGED <<poolVars, rnext, ri>>
    /\ UNCHANGED notRouter

\* History: the calls other than r's that are under way have seen the cursor
\* written by another call.
OthersNotSolo(r) ==
    [q \in Reqs |-> IF q # r /\ InSelection(q) THEN FALSE ELSE rsolo[q]]

\* next := s.NextIndex(). atomic.AddUint64 is evaluated first, so the cursor
\* is incremented in every call; with an empty pool the modulo then divides
\* by zero and the goroutine panics before any response is written.
NextIndex(r) ==
    /\ rpc[r] = "call"
    /\ current' = AddUint(current, 1)
    /\ rsolo' = OthersNotSolo(r)
    /\ IF nBackends = 0
         THEN /\ rpc' = [rpc EXCEPT ![r] = "panicked"]
              /\ UNCHANGED <<rnext, ri>>
         ELSE /\ rnext' = [rnext EXCEPT ![r] = IndexOf(current')]
              /\ ri' = [ri EXCEPT ![r] = IndexOf(current')]
              /\ rpc' = [rpc EXCEPT ![r] = "scan"]
    /\ UNCHANGED <<nBackends, alive, connCount, started, beVars,
                   rpath, rpeer, rresp, rstable>>
    /\ UNCHANGED notRouter

\* One iteration of GetNextPeer's loop: the read of s.Backends[idx].IsAlive()
\* and what follows it up to the next shared access. The loop variable is
\* not read again once the loop is left, and is cleared.
Scan(r) ==
    /\ rpc[r] = "scan"
    /\ LET idx == ri[r] % nBackends IN
       IF IsAlive(idx)
         THEN /\ rpeer' = [rpeer EXCEPT ![r] = idx]
              /\ rpc' = [rpc EXCEPT ![r] =
                            IF ri[r] # rnext[r] THEN "store" ELSE "returned"]
              /\ ri' = [ri EXCEPT ![r] = 0]
         ELSE IF ri[r] + 1 < ScanLimit(rnext[r])
                THEN /\ ri' = [ri EXCEPT ![r] = ri[r] + 1]
                     /\ UNCHANGED <<rpc, rpeer>>
                ELSE /\ rpc' = [rpc EXCEPT ![r] = "returned"]
                     /\ rpeer' = [rpeer EXCEPT ![r] = Nil]
                     /\ ri' = [ri EXCEPT ![r] = 0]
    /\ UNCHANGED <<poolVars, rpath, rnext, rresp, rstable, rsolo>>
    /\ UNCHANGED notRouter

\* atomic.StoreUint64(&s.current, uint64(idx)) after a skip, then return
Store(r) ==
    /\ rpc[r] = "store"
    /\ current' = rpeer[r]
    /\ rsolo' = OthersNotSolo(r)
    /\ rpc' = [rpc EXCEPT ![r] = "returned"]
    /\ UNCHANGED <<nBackends, alive, connCount, started, beVars,
                   rpath, rnext, ri, rpeer, rresp, rstable>>
    /\ UNCHANGED notRouter

\* peer != nil: peer.ReverseProxy.ServeHTTP(w, r) starts. GetNextPeer's
\* locals are gone once it has returned.
Dispatch(r) ==
    /\ rpc[r] = "returned"
    /\ rpeer[r] # Nil
    /\ rpc' = [rpc EXCEPT ![r] = "proxy"]
    /\ rnext' = [rnext EXCEPT ![r] = 0]
    /\ rstable' = [rstable EXCEPT ![r] = TRUE]
    /\ rsolo' = [rsolo EXCEPT ![r] = TRUE]
    /\ UNCHANGED <<poolVars, rpath, ri, rpeer, rresp>>
    /\ UNCHANGED notRouter

\* The proxied call ends: the backend's answer is relayed, the transport
\* failed (the ErrorHandler only logs), or the proxy panicked.
ProxyOutcomes == {"ok", "error", "panic"}

ProxyDone(r, o) ==
    /\ rpc[r] = "proxy"
    /\ rpc' = [rpc EXCEPT ![r] = IF o = "panic" THEN "panicked" ELSE "done"]
    /\ rresp' = [rresp EXCEPT ![r] = IF o = "ok" THEN StatusOK ELSE NoResp]
    /\ UNCHANGED <<poolVars, rpath, rnext, ri, rpeer, rstable, rsolo>>
    /\ UNCHANGED notRouter

\* peer == nil: http.Error(w, "Service not available", 503)
Unavailable(r) ==
    /\ rpc[r] = "returned"
    /\ rpeer[r] = Nil
    /\ rresp' = [rresp EXCEPT ![r] = StatusServiceUnavailable]
    /\ rpc' = [rpc EXCEPT ![r] = "done"]
    /\ rnext' = [rnext EXCEPT ![r] = 0]
    /\ rstable' = [rstable EXCEPT ![r] = TRUE]
    /\ rsolo' = [rsolo EXCEPT ![r] = TRUE]
    /\ UNCHANGED <<poolVars, rpath, ri, rpeer>>
    /\ UNCHANGED notRouter

\* The goroutine is gone; the slot takes the next request.
Finish(r) ==
    /\ rpc[r] \in {"done", "panicked"}
    /\ rpc' = [rpc EXCEPT ![r] = "idle"]
    /\ rpath' = [rpath EXCEPT ![r] = "/"]
    /\ rnext' = [rnext EXCEPT ![r] = 0]
    /\ ri' = [ri EXCEPT ![r] = 0]
    /\ rpeer' = [rpeer EXCEPT ![r] = Nil]
    /\ rresp' = [rresp EXCEPT ![r] = NoResp]
    /\ rstable' = [rstable EXCEPT ![r] = TRUE]
    /\ rsolo' = [rsolo EXCEPT ![r] = TRUE]
    /\ UNCHANGED poolVars
    /\ UNCHANGED notRouter

\* main wires StartTime: time.Now()
Next ==
    \/ \E a \in BOOLEAN : Wiring /\ AddBackend(a, now)
    \/ Serve
    \/ \E b \in Slots, a \in BOOLEAN : SetAlive(b, a)
    \/ \E r \in Reqs, p \in Paths : Receive(r, p)
    \/ \E r \in Reqs : NextIndex(r)
    \/ \E r \in Reqs : Scan(r)
    \/ \E r \in Reqs : Store(r)
    \/ \E r \in Reqs : Dispatch(r)
    \/ \E r \in Reqs, o \in ProxyOutcomes : ProxyDone(r, o)
    \/ \E r \in Reqs : Unavailable(r)
    \/ \E r \in Reqs : Finish(r)

Spec == Init /\ [][Next]_vars

\* ===================================================== GetLeastConnPeer
\* The body of GetLeastConnPeer's loop for backend b; acc is <<best, min>>.
LCStepLastTie(acc, b) ==
    IF ~IsAlive(b) THEN acc
    ELSE IF acc[1] = Nil \/ GetConnCount(b) <= acc[2]
           THEN <<b, GetConnCount(b)>>
           ELSE acc

LCStepDead(acc, b) ==
    IF IsAlive(b) THEN acc
    ELSE IF acc[1] = Nil \/ GetConnCount(b) < acc[2]
           THEN <<b, GetConnCount(b)>>
           ELSE acc

LCStep(acc, b) ==
    IF ~IsAlive(b) THEN acc
    ELSE IF acc[1] = Nil \/ GetConnCount(b) < acc[2]
           THEN <<b, GetConnCount(b)>>
           ELSE acc

\* for _, b := range s.Backends, from backend k on
RECURSIVE LCScan(_, _)
LCScan(acc, k) ==
    IF k >= nBackends THEN acc ELSE LCScan(LCStep(acc, k), k + 1)

\* var best *Backend; var min uint64 = ^uint64(0); ...; return best
GetLeastConnPeer == LCScan(<<Nil, UintMax>>, 0)[1]

\* Any pool the wiring and the tests can build: any length, liveness flags and
\* connection counts (TestServerPool_GetLeastConnPeer writes ConnCount itself).
InitLCPool ==
    /\ nBackends \in 0 .. MaxBackends
    /\ current = 0
    /\ alive \in [Slots -> BOOLEAN]
    /\ connCount \in [Slots -> 0 .. UintMax]
    /\ \A b \in Slots : b >= nBackends => (~alive[b] /\ connCount[b] = 0)
    /\ started = TRUE
    /\ InitFields

CallLeastConn ==
    /\ ~lcCalled
    /\ lcCalled' = TRUE
    /\ lcPeer' = GetLeastConnPeer
    /\ UNCHANGED <<poolVars, reqVars, cntVars, hcVars, qVars, tVars>>

NextLC == CallLeastConn

InitLeastConn == InitLCPool /\ InitReqs /\ InitLC /\ InitCnt /\ InitHC

SpecLC == InitLeastConn /\ [][NextLC]_vars

\* ================================================== the backend record
\* The clock, in ticks of 1/TicksPerSecond s: time.Since(t).Seconds() cut to
\* a uint64 is the whole seconds in the ticks elapsed.
WholeSeconds(ticks) == ticks \div TicksPerSecond

\* time.Since(t): the ticks elapsed, or the largest Duration when more have
\* elapsed than a Duration holds
Since(t) == IF now - t > MaxDuration THEN MaxDuration ELSE now - t

GetUpTimeInSecondsNoCheck(b) == WholeSeconds(Since(startTime[b]))

\* Backend.GetUpTimeInSeconds, under the read lock: 0 for a dead backend,
\* else uint64(time.Since(b.StartTime).Seconds())
GetUpTimeInSeconds(b) ==
    IF ~alive[b] THEN 0 ELSE WholeSeconds(Since(startTime[b]))

\* The results of earlier calls are dropped when the state they read changes.
DropQueries ==
    /\ upFor' = Nil
    /\ upRes' = 0
    /\ UNCHANGED <<puCalled, puSecs, puText, stCalled, stats>>

\* Time passes.
Tick ==
    /\ now < MaxTime
    /\ now' = now + 1
    /\ DropQueries
    /\ UNCHANGED <<nBackends, current, alive, connCount, started>>
    /\ UNCHANGED <<startTime, memoryUsage, streak, lcCalled, lcPeer, tVars>>
    /\ UNCHANGED <<reqVars, cntVars, hcVars>>

\* b.SetAlive(a), by any caller and with any value, under the write lock
CallSetAlive(b, a) ==
    /\ b \in Backends
    /\ alive' = [alive EXCEPT ![b] = a]
    /\ startTime' = [startTime EXCEPT ![b] = NewStartTime(b, a)]
    /\ streak' = [streak EXCEPT ![b] = IF ~alive[b] /\ a THEN now ELSE streak[b]]
    /\ DropQueries
    /\ UNCHANGED <<nBackends, current, connCount, started>>
    /\ UNCHANGED <<memoryUsage, now, lcCalled, lcPeer, tVars>>
    /\ UNCHANGED <<reqVars, cntVars, hcVars>>

\* b.GetUpTimeInSeconds() is called and returns
CallUpTime(b) ==
    /\ b \in Backends
    /\ upFor' = b
    /\ upRes' = GetUpTimeInSeconds(b)
    /\ UNCHANGED <<puCalled, puSecs, puText, stCalled, stats, lcCalled, lcPeer, tVars>>
    /\ UNCHANGED <<poolVars, reqVars, cntVars, hcVars>>

\* The pool main wires: every backend starts its first streak at the wiring
\* (StartTime: time.Now()); the liveness flags as main or a test gave them.
InitRecordPool ==
    /\ nBackends \in 1 .. MaxBackends
    /\ current = 0
    /\ alive \in [Slots -> BOOLEAN]
    /\ \A b \in Slots : b >= nBackends => ~alive[b]
    /\ connCount = [b \in Slots |-> 0]
    /\ started = TRUE
    /\ InitFields

InitRecord == InitRecordPool /\ InitReqs /\ InitLC /\ InitCnt /\ InitHC

NextBE ==
    \/ Tick
    \/ \E b \in Slots, a \in BOOLEAN : CallSetAlive(b, a)
    \/ \E b \in Slots : CallUpTime(b)

SpecBE == InitRecord /\ [][NextBE]_vars

\* ============================================ pool uptime and statistics
\* fmt.Sprintf("%02dh:%02dm:%02ds", hours, minutes, secs): the three numbers
\* the text shows
formatSecondsToDuration(seconds) ==
    [text |-> "hms",
     h |-> seconds \div 3600,
     m |-> (seconds % 3600) \div 60,
     s |-> seconds % 60]

\* Backend.GetUpTime
GetUpTime(b) == formatSecondsToDuration(GetUpTimeInSeconds(b))

\* fmt's %.2f of x/unit, as a count of hundredths: the exact quotient rounded
\* to the nearest hundredth, a tie going to the even one
Hundredths(x, unit) ==
    LET q == (x * 100) \div unit
        r == (x * 100) % unit
    IN  IF 2 * r > unit \/ (2 * r = unit /\ q % 2 = 1) THEN q + 1 ELSE q

\* Backend.GetMemoryUsageString: "%d B", "%.2f KB" or "%.2f MB"
GetMemoryUsageString(b) ==
    LET mem == memoryUsage[b] IN
    IF mem < 1024
      THEN [unit |-> "B", int |-> mem, frac |-> 0]
      ELSE IF mem < 1024 * 1024
             THEN [unit |-> "KB",
                   int |-> Hundredths(mem, 1024) \div 100,
                   frac |-> Hundredths(mem, 1024) % 100]
             ELSE [unit |-> "MB",
                   int |-> Hundredths(mem, 1024 * 1024) \div 100,
                   frac |-> Hundredths(mem, 1024 * 1024) % 100]

\* b.URL.String(): the address backend b was configured with
Addr(b) == <<"http://backend", b>>

\* for _, b := range s.Backends { if b.IsAlive() { total += b.GetUpTimeInSeconds() } }
\* from backend k on
RECURSIVE UpTimeFrom(_)
UpTimeFrom(k) ==
    IF k >= nBackends THEN 0
    ELSE (IF IsAlive(k) THEN GetUpTimeInSeconds(k) ELSE 0) + UpTimeFrom(k + 1)

AliveFromAll(k) == nBackends - k

\* aliveCount++ for every alive backend, from backend k on
RECURSIVE AliveFrom(_)
AliveFrom(k) ==
    IF k >= nBackends THEN 0
    ELSE (IF IsAlive(k) THEN 1 ELSE 0) + AliveFrom(k + 1)

\* ServerPool.GetUpTimeInSeconds
PoolGetUpTimeInSeconds == UpTimeFrom(0)

\* ServerPool.GetUpTime
PoolGetUpTime ==
    IF AliveFrom(0) = 0
      THEN ZeroS
      ELSE formatSecondsToDuration(UpTimeFrom(0) \div AliveFrom(0))

\* stats = append(stats, BackendStats{...})
StatsStep(acc, snap) == Append(acc, snap)

\* The pool's GetUpTimeInSeconds and GetUpTime are called and return.
CallPoolUpTime ==
    /\ ~puCalled
    /\ puCalled' = TRUE
    /\ puSecs' = PoolGetUpTimeInSeconds
    /\ puText' = PoolGetUpTime
    /\ UNCHANGED <<upFor, upRes, stCalled, stats, lcCalled, lcPeer, tVars>>
    /\ UNCHANGED <<poolVars, reqVars, cntVars, hcVars>>

\* The clock reading at which the pool is looked at, and what a backend may
\* be like then: how long ago (in ticks) its streak began, and the memory
\* usage it holds.
Horizon == 3662 * TicksPerSecond

Profiles ==
    {[up |-> 0, mem |-> 0],
     [up |-> 59 * TicksPerSecond + 1, mem |-> 500],
     [up |-> 60 * TicksPerSecond, mem |-> 1152],
     [up |-> 3600 * TicksPerSecond, mem |-> 1536],
     [up |-> 3661 * TicksPerSecond + 1, mem |-> 1048576],
     [up |-> 1 * TicksPerSecond, mem |-> 1500000]}

\* Any pool of backends with such profiles, alive or dead.
InitViewPool ==
    /\ nBackends \in 0 .. MaxBackends
    /\ current = 0
    /\ alive \in [Slots -> BOOLEAN]
    /\ connCount = [b \in Slots |-> 0]
    /\ started = TRUE
    /\ now = Horizon
    /\ \E prof \in [Slots -> Profiles] :
          /\ startTime = [b \in Slots |-> Horizon - prof[b].up]
          /\ memoryUsage = [b \in Slots |-> prof[b].mem]
    /\ streak = startTime
    /\ \A b \in Slots :
          b >= nBackends =>
              (~alive[b] /\ startTime[b] = Horizon /\ memoryUsage[b] = 0)

InitView == InitViewPool /\ InitReqs /\ InitLC /\ InitCnt /\ InitHC

NextView == CallPoolUpTime

SpecView == InitView /\ [][NextView]_vars

\* ===================================================== IncConn / DecConn
\* The connection counter's operations on backend 0, each goroutine's call
\* taken one shared access at a time.
SubUint(x, d) == (x - d) % UintMod

DecNeverNoop(old) == FALSE

\* DecConn returns at once when it read zero
DecIsNoop(old) == old = 0

CasAlways(cur, old) == TRUE

\* compare-and-swap succeeds when the counter still holds the value read
CasOk(cur, old) == cur = old

MayCall(t) ==
    /\ cpc[t] = "idle"
    /\ scenario = "free" => cops[t] < MaxOps

\* b.IncConn(): one atomic add
IncConn(t) ==
    /\ MayCall(t)
    /\ scenario = "phased" => cops[t] = 0
    /\ connCount' = [connCount EXCEPT ![0] = AddUint(connCount[0], 1)]
    /\ incDone' = incDone + 1
    /\ cops' = [cops EXCEPT ![t] = cops[t] + 1]
    /\ UNCHANGED <<nBackends, current, alive, started, beVars>>
    /\ UNCHANGED <<cpc, cold, decDone, scenario>>
    /\ UNCHANGED <<reqVars, lcVars, hcVars>>

\* b.DecConn() is entered; in the phased run only after wg.Wait() has seen
\* every IncConn return
CallDec(t) ==
    /\ MayCall(t)
    /\ scenario = "phased" => (cops[t] = 1 /\ \A u \in Threads : cops[u] >= 1)
    /\ cpc' = [cpc EXCEPT ![t] = "dec_load"]
    /\ UNCHANGED <<poolVars, cold, cops, incDone, decDone, scenario>>
    /\ UNCHANGED <<reqVars, lcVars, hcVars>>

\* DecConn reads the counter: zero ends the call, anything else goes to the swap
DecLoad(t) ==
    /\ cpc[t] = "dec_load"
    /\ IF DecIsNoop(connCount[0])
         THEN /\ cpc' = [cpc EXCEPT ![t] = "idle"]
              /\ cops' = [cops EXCEPT ![t] = cops[t] + 1]
              /\ UNCHANGED cold
         ELSE /\ cpc' = [cpc EXCEPT ![t] = "dec_cas"]
              /\ cold' = [cold EXCEPT ![t] = connCount[0]]
              /\ UNCHANGED cops
    /\ UNCHANGED <<poolVars, incDone, decDone, scenario>>
    /\ UNCHANGED <<reqVars, lcVars, hcVars>>

\* DecConn's compare-and-swap to old-1: done on success, back to the read
\* when another goroutine changed the counter in between
DecCas(t) ==
    /\ cpc[t] = "dec_cas"
    /\ IF CasOk(connCount[0], cold[t])
         THEN /\ connCount' = [connCount EXCEPT ![0] = SubUint(cold[t], 1)]
              /\ decDone' = decDone + 1
              /\ cpc' = [cpc EXCEPT ![t] = "idle"]
              /\ cops' = [cops EXCEPT ![t] = cops[t] + 1]
         ELSE /\ cpc' = [cpc EXCEPT ![t] = "dec_load"]
              /\ UNCHANGED <<connCount, decDone, cops>>
    /\ cold' = [cold EXCEPT ![t] = 0]
    /\ UNCHANGED <<nBackends, current, alive, started, beVars, incDone, scenario>>
    /\ UNCHANGED <<reqVars, lcVars, hcVars>>

\* b := &Backend{URL: u}: one backend, counter zero (TestBackend_ConnectionCounters)
InitCntPool ==
    /\ nBackends = 1
    /\ current = 0
    /\ alive = [b \in Slots |-> FALSE]
    /\ connCount = [b \in Slots |-> 0]
    /\ started = TRUE
    /\ InitFields

NextCnt ==
    \/ \E t \in Threads : IncConn(t)
    \/ \E t \in Threads : CallDec(t)
    \/ \E t \in Threads : DecLoad(t)
    \/ \E t \in Threads : DecCas(t)

\* Either goroutines calling freely, or the run of Concurrent Counters.
InitCounters ==
    /\ InitCntPool /\ InitReqs /\ InitLC /\ InitHC
    /\ InitCntIdle /\ scenario \in {"free", "phased"}

SpecCnt == InitCounters /\ [][NextCnt]_vars

\* ======================================================== health monitor
\* How a backend process may answer: not at all (no TCP connection), or with
\* an HTTP status.
ServerStates == {NoConn, StatusOK, StatusInternalServerError}

\* A backend process that accepts the TCP connection and then sends nothing
Hung == Nil

\* isBackendAlive(u): net.DialTimeout("tcp", u.Host, 2s) succeeded. Only the
\* TCP connection is tried; no HTTP request is sent.
IsBackendAliveStatus(st) == st # NoConn

isBackendAlive(b) == IsBackendAliveStatus(srv[b])

RECURSIVE JobsUpTo(_)
JobsUpTo(k) == IF k < 0 THEN 0 ELSE jobs[k] + JobsUpTo(k - 1)

\* updateBackendStats goroutines running, over all backends
TotalJobs == JobsUpTo(MaxBackends - 1)

\* The pool main wires (one backend or more), with the liveness flags the
\* wiring or a test gave, as it is when go healthCheck() begins: no refresh
\* has run and every backend holds MemoryUsage 0.
InitHCPool ==
    /\ nBackends \in 1 .. MaxMonitored
    /\ current = 0
    /\ alive \in [Slots -> BOOLEAN]
    /\ \A b \in Slots : b >= nBackends => ~alive[b]
    /\ connCount = [b \in Slots |-> 0]
    /\ started = TRUE
    /\ InitFields

\* for range t.C: the ticker fires and the inner loop starts at the first
\* backend. Nothing in the loop reads the cancellation signal.
HCTick ==
    /\ hcPc = "wait"
    /\ hcPc' = "probe"
    /\ hcIdx' = 0
    /\ hcLog' = << >>
    /\ UNCHANGED <<hcAlive, hcSeen, srv, health, probed, jobs, held, cancelled>>
    /\ UNCHANGED <<poolVars, reqVars, lcVars, cntVars>>

\* alive := isBackendAlive(b.URL)
HCProbe ==
    /\ hcPc = "probe"
    /\ hcAlive' = isBackendAlive(hcIdx)
    /\ hcSeen' = srv[hcIdx]
    /\ probed' = [probed EXCEPT ![hcIdx] = IF isBackendAlive(hcIdx) THEN "up" ELSE "down"]
    /\ hcPc' = "check"
    /\ hcLog' = << >>
    /\ UNCHANGED <<hcIdx, srv, health, jobs, held, cancelled>>
    /\ UNCHANGED <<poolVars, reqVars, lcVars, cntVars>>

StatusChangedDownOnly(b, a) == IsAlive(b) /\ ~a

StatusChangedAlways(b, a) == TRUE

\* log.Printf("Status change: %s [%s]", b.URL, status): the line, with up
\* for the status "up" and ~up for "down"
LogLine(b, a) == [op |-> "log", backend |-> b, up |-> a]

\* b.SetAlive(alive): the call
SetAliveCall(b, a) == [op |-> "SetAlive", backend |-> b, up |-> a]

\* if b.IsAlive() != alive
StatusChanged(b, a) == IsAlive(b) # a

\* The go statement of the check at hand would not take the goroutines in
\* flight beyond k.
RoomFor(k) == hcAlive => TotalJobs < k

\* if b.IsAlive() != alive: the flag is read under the backend's read lock,
\* which is released before anything else is done
HCIsAlive ==
    /\ hcPc = "check"
    /\ hcPc' = IF StatusChanged(hcIdx, hcAlive) THEN "log" ELSE "go"
    /\ UNCHANGED <<hcIdx, hcAlive, hcSeen, srv, health, probed, jobs, held,
                   cancelled, hcLog>>
    /\ UNCHANGED <<poolVars, reqVars, lcVars, cntVars>>

\* log.Printf("Status change: %s [%s]", b.URL, status)
HCLog ==
    /\ hcPc = "log"
    /\ hcLog' = Append(hcLog, LogLine(hcIdx, hcAlive))
    /\ hcPc' = "set"
    /\ UNCHANGED <<hcIdx, hcAlive, hcSeen, srv, health, probed, jobs, held,
                   cancelled>>
    /\ UNCHANGED <<poolVars, reqVars, lcVars, cntVars>>

\* b.SetAlive(alive), under the backend's write lock
HCSetAlive ==
    /\ hcPc = "set"
    /\ alive' = [alive EXCEPT ![hcIdx] = hcAlive]
    /\ startTime' = [startTime EXCEPT ![hcIdx] = NewStartTime(hcIdx, hcAlive)]
    /\ streak' = [streak EXCEPT ![hcIdx] =
                     IF hcAlive /\ ~alive[hcIdx] THEN now ELSE streak[hcIdx]]
    /\ hcLog' = Append(hcLog, SetAliveCall(hcIdx, hcAlive))
    /\ hcPc' = "go"
    /\ UNCHANGED <<hcIdx, hcAlive, hcSeen, srv, health, probed, jobs, held,
                   cancelled>>
    /\ UNCHANGED <<nBackends, current, connCount, started, memoryUsage, now>>
    /\ UNCHANGED <<reqVars, lcVars, cntVars>>

\* if alive { go updateBackendStats(b) }
\* and on to the next backend, or back to the ticker after the last one.
HCGo ==
    /\ hcPc = "go"
    /\ jobs' = IF hcAlive THEN [jobs EXCEPT ![hcIdx] = jobs[hcIdx] + 1] ELSE jobs
    /\ IF hcIdx + 1 < nBackends
         THEN hcIdx' = hcIdx + 1 /\ hcPc' = "probe"
         ELSE hcIdx' = 0 /\ hcPc' = "wait"
    /\ hcAlive' = FALSE
    /\ hcSeen' = 0
    /\ hcLog' = << >>
    /\ UNCHANGED <<srv, health, probed, held, cancelled>>
    /\ UNCHANGED <<poolVars, reqVars, lcVars, cntVars>>

\* json.NewDecoder(resp.Body).Decode(&health) returns an error
DecodeFails(body) == ~body.valid

\* health.MemoryUsage after a successful Decode: a field the object does not
\* have leaves the zero value of the HealthResponse
Decoded(body) == IF body.hasField THEN body.mem ELSE 0

\* resp, err := http.Get(b.URL.String() + "/health"): what the backend sends
\* at the moment it answers, the status (NoConn for err != nil) and the body
Response(b) == [status |-> srv[b], body |-> health[b]]

Responses == [status : ServerStates, body : HealthBodies]

StatsFailsOnErrorOnly(r) == r.status = NoConn \/ DecodeFails(r.body)

\* updateBackendStats logs and returns early: http.Get failed, the status is
\* not 200, or the body does not decode
StatsFails(r) ==
    \/ r.status = NoConn
    \/ r.status # StatusOK
    \/ DecodeFails(r.body)

\* The updateBackendStats goroutines of b that still wait in http.Get
Fetching(b) == jobs[b] - BagCardinality(held[b])

\* http.Get returns in one of b's updateBackendStats goroutines. It uses
\* http.DefaultClient, which sets no timeout: the call returns when the
\* backend answers or the connection fails, and not before. On an error, a
\* status other than 200 or a body that does not decode the goroutine logs
\* and returns, having touched nothing; otherwise it goes on with the answer.
StatsFetch(b) ==
    /\ b \in Backends
    /\ Fetching(b) > 0
    /\ srv[b] # Hung
    /\ IF StatsFails(Response(b))
         THEN /\ jobs' = [jobs EXCEPT ![b] = jobs[b] - 1]
              /\ UNCHANGED held
         ELSE /\ held' = [held EXCEPT ![b] = @ (+) SetToBag({Response(b)})]
              /\ UNCHANGED jobs
    /\ UNCHANGED <<hcPc, hcIdx, hcAlive, hcSeen, srv, health, probed, cancelled, hcLog>>
    /\ UNCHANGED <<poolVars, reqVars, lcVars, cntVars>>

\* b.SetMemoryUsage(health.MemoryUsage), under the backend's write lock, by a
\* goroutine that was answered r some time ago; the goroutine ends.
StatsDone(b, r) ==
    /\ b \in Backends
    /\ BagIn(r, held[b])
    /\ held' = [held EXCEPT ![b] = @ (-) SetToBag({r})]
    /\ jobs' = [jobs EXCEPT ![b] = jobs[b] - 1]
    /\ memoryUsage' = [memoryUsage EXCEPT ![b] = Decoded(r.body)]
    /\ UNCHANGED <<hcPc, hcIdx, hcAlive, hcSeen, srv, health, probed, cancelled, hcLog>>
    /\ UNCHANGED <<nBackends, current, alive, connCount, started>>
    /\ UNCHANGED <<startTime, now, streak>>
    /\ UNCHANGED <<reqVars, lcVars, cntVars>>

\* b.SetMemoryUsage(m) called directly, as the tests do
SetMemoryUsage(b, m) ==
    /\ b \in Backends
    /\ memoryUsage' = [memoryUsage EXCEPT ![b] = m]
    /\ UNCHANGED <<nBackends, current, alive, connCount, started>>
    /\ UNCHANGED <<startTime, now, streak>>
    /\ UNCHANGED <<reqVars, lcVars, cntVars, hcVars>>

\* A backend process starts to answer differently.
SrvChange(b, st) ==
    /\ b \in Backends
    /\ srv[b] # st
    /\ srv' = [srv EXCEPT ![b] = st]
    /\ UNCHANGED <<hcPc, hcIdx, hcAlive, hcSeen, health, probed, jobs, held, cancelled, hcLog>>
    /\ UNCHANGED <<poolVars, reqVars, lcVars, cntVars>>

\* The shared cancellation signal is raised (the tests' context expires).
Cancel ==
    /\ ~cancelled
    /\ cancelled' = TRUE
    /\ UNCHANGED <<hcPc, hcIdx, hcAlive, hcSeen, srv, health, probed, jobs, held, hcLog>>
    /\ UNCHANGED <<poolVars, reqVars, lcVars, cntVars>>

HCLoop ==
    \/ HCTick \/ HCProbe \/ HCIsAlive \/ HCLog \/ HCSetAlive
    \/ (RoomFor(MaxJobs) /\ HCGo)

NextHC ==
    \/ HCTick
    \/ HCProbe
    \/ HCIsAlive
    \/ HCLog
    \/ HCSetAlive
    \/ (RoomFor(MaxJobs) /\ HCGo)
    \/ \E b \in Slots : StatsFetch(b)
    \/ \E b \in Slots, r \in Responses : StatsDone(b, r)
    \/ \E b \in Slots, st \in ServerStates : SrvChange(b, st)
    \/ Cancel

InitMonitor == InitHCPool /\ InitReqs /\ InitLC /\ InitCnt /\ InitHC

SpecHC == InitMonitor /\ [][NextHC]_vars

\* The monitor as main starts it, go healthCheck(): nothing raises a
\* cancellation signal. The backend processes go down and come back.
NextLive ==
    \/ HCTick
    \/ HCProbe
    \/ HCIsAlive
    \/ HCLog
    \/ HCSetAlive
    \/ (RoomFor(MaxLiveJobs) /\ HCGo)
    \/ \E b \in Slots : StatsFetch(b)
    \/ \E b \in Slots, r \in Responses : StatsDone(b, r)
    \/ \E b \in Slots, st \in {NoConn, StatusOK} : SrvChange(b, st)

SpecLive == InitMonitor /\ [][NextLive]_vars

\* The ticker keeps firing, the goroutines keep being scheduled, and every
\* stats fetch comes to an end.
FairSpecHC ==
    /\ SpecHC
    /\ WF_vars(HCLoop)
    /\ WF_vars(\E b \in Slots : StatsFetch(b))
    /\ WF_vars(\E b \in Slots, r \in Responses : StatsDone(b, r))

\* ==================================================== updateBackendStats
\* updateBackendStats(b) is started, by the monitor's go statement or by a
\* direct call.
CallStats(b) ==
    /\ b \in Backends
    /\ TotalJobs < MaxJobs
    /\ jobs' = [jobs EXCEPT ![b] = jobs[b] + 1]
    /\ UNCHANGED <<hcPc, hcIdx, hcAlive, hcSeen, srv, health, probed, held,
                   cancelled, hcLog>>
    /\ UNCHANGED <<poolVars, reqVars, lcVars, cntVars>>

\* A backend process stops answering: it still accepts connections.
SrvHang(b) ==
    /\ b \in Backends
    /\ srv[b] # Hung
    /\ srv' = [srv EXCEPT ![b] = Hung]
    /\ UNCHANGED <<hcPc, hcIdx, hcAlive, hcSeen, health, probed, jobs, held, cancelled, hcLog>>
    /\ UNCHANGED <<poolVars, reqVars, lcVars, cntVars>>

\* A backend process starts to serve another body on /health.
HealthChange(b, body) ==
    /\ b \in Backends
    /\ health[b] # body
    /\ health' = [health EXCEPT ![b] = body]
    /\ UNCHANGED <<hcPc, hcIdx, hcAlive, hcSeen, srv, probed, jobs, held, cancelled, hcLog>>
    /\ UNCHANGED <<poolVars, reqVars, lcVars, cntVars>>

\* b := &core.Backend{URL: u, Alive: true}: the lone backend of
\* TestUpdateBackendStats
InitStatsPool ==
    /\ nBackends = 1
    /\ current = 0
    /\ alive = [b \in Slots |-> b = 0]
    /\ connCount = [b \in Slots |-> 0]
    /\ started = TRUE
    /\ InitFields

InitStats == InitStatsPool /\ InitReqs /\ InitLC /\ InitCnt /\ InitHC

NextStats ==
    \/ \E b \in Slots : CallStats(b)
    \/ \E b \in Slots : StatsFetch(b)
    \/ \E b \in Slots, r \in Responses : StatsDone(b, r)
    \/ \E b \in Slots, st \in ServerStates : SrvChange(b, st)
    \/ \E b \in Slots : SrvHang(b)
    \/ \E b \in Slots, body \in HealthBodies : HealthChange(b, body)
    \/ \E b \in Slots, m \in MemValues : SetMemoryUsage(b, m)

SpecStats == InitStats /\ [][NextStats]_vars

\* ============================================ calls made one after another
\* A test, or a single caller, uses the pool after the wiring: GetNextPeer
\* calls that each return before the next begins, and the pool's readers.

\* for i := next; i < l; i++: the first i whose backend IsAlive, Nil if none
RECURSIVE FirstAliveFrom(_, _)
FirstAliveFrom(i, l) ==
    IF i >= l THEN Nil
    ELSE IF IsAlive(i % nBackends) THEN i
    ELSE FirstAliveFrom(i + 1, l)

\* ServerPool.GetNextPeer run from its first line to its return: what it
\* returns and what it leaves in the cursor
GetNextPeer ==
    LET cur == AddUint(current, 1)
        next == IndexOf(cur)
        i == FirstAliveFrom(next, ScanLimit(next))
    IN  [peer |-> IF i = Nil THEN Nil ELSE i % nBackends,
         cursor |-> IF i # Nil /\ i # next THEN i % nBackends ELSE cur]

\* The latest MaxBackends entries of a log
Latest(log) ==
    IF Len(log) <= MaxBackends THEN log
    ELSE SubSeq(log, Len(log) - MaxBackends + 1, Len(log))

\* The StartTime a test gives a backend it builds: none (the zero time), the
\* current time, or a time ten seconds ago
StartTimes == {ZeroTime, now, now - TenSeconds}

\* got := pool.GetNextPeer(), on a pool that has backends
CallNext ==
    /\ started
    /\ nBackends > 0
    /\ current' = GetNextPeer.cursor
    /\ seqLog' = Latest(Append(seqLog,
                        [cur |-> current, peer |-> GetNextPeer.peer]))
    /\ UNCHANGED <<nBackends, alive, connCount, started, beVars>>
    /\ UNCHANGED <<lcCalled, lcPeer, qVars, gsVars, selVars, lcsVars, guVars>>
    /\ UNCHANGED <<reqVars, cntVars, hcVars>>

NextSeq ==
    \/ \E a \in BOOLEAN, t \in StartTimes : Wiring /\ AddBackend(a, t)
    \/ Serve
    \/ CallNext
    \/ CallLeastConn
    \/ CallPoolUpTime

SpecSeq == Init /\ [][NextSeq]_vars

\* ===================================================== concurrent selection
\* Request goroutines call GetNextPeer at the same time, another goroutine
\* calls GetLeastConnPeer, and the health monitor changes liveness flags in
\* between their steps. Each atomic operation or locked read is one step.

AliveNow == {b \in Backends : alive[b]}

\* The other calls that hold the cursor value v
HeldBy(s, v) == {t \in Sels \ {s} : spc[t] # "idle" /\ sval[t] = v}

\* next := s.NextIndex(): atomic.AddUint64(&s.current, 1) % len(s.Backends)
SelNextIndex(s) ==
    /\ started
    /\ nBackends > 0
    /\ spc[s] = "idle"
    /\ LET v == AddUint(current, 1)
           wraps == v < current
       IN  /\ current' = v
           /\ sval' = [sval EXCEPT ![s] = IF srec /\ ~wraps THEN v ELSE 0]
           /\ snext' = [snext EXCEPT ![s] = IndexOf(v)]
           /\ si' = [si EXCEPT ![s] = IndexOf(v)]
           /\ srec' = (srec /\ ~wraps)
           /\ served' = IF srec /\ wraps
                           THEN [w \in 0 .. UintMax |-> Nil] ELSE served
           /\ sdup' = (sdup \/ (srec /\ ~wraps /\
                                  (served[v] # Nil \/ HeldBy(s, v) # {})))
    /\ spc' = [spc EXCEPT ![s] = "scan"]
    /\ ssteady' = [ssteady EXCEPT ![s] = AliveNow]
    /\ UNCHANGED <<speer, sseen, sreads>>
    /\ UNCHANGED <<nBackends, alive, connCount, started, beVars>>
    /\ UNCHANGED <<lcCalled, lcPeer, qVars, seqLog, gsVars, lcsVars, guVars>>
    /\ UNCHANGED <<reqVars, cntVars, hcVars>>

\* One turn of the loop: idx := i % len(s.Backends); if
\* s.Backends[idx].IsAlive() the call goes on to the store or the return.
SelScan(s) ==
    /\ spc[s] = "scan"
    /\ LET idx == si[s] % nBackends
       IN  /\ sseen' = [sseen EXCEPT ![s] = @ \cup {idx}]
           /\ sreads' = [sreads EXCEPT ![s] = @ + 1]
           /\ IF IsAlive(idx)
                 THEN /\ speer' = [speer EXCEPT ![s] = idx]
                      /\ spc' = [spc EXCEPT ![s] =
                                    IF si[s] # snext[s] THEN "store" ELSE "returned"]
                      /\ UNCHANGED si
                 ELSE IF si[s] + 1 < ScanLimit(snext[s])
                 THEN /\ si' = [si EXCEPT ![s] = @ + 1]
                      /\ UNCHANGED <<speer, spc>>
                 ELSE /\ speer' = [speer EXCEPT ![s] = Nil]
                      /\ spc' = [spc EXCEPT ![s] = "returned"]
                      /\ UNCHANGED si
    /\ UNCHANGED <<snext, sval, ssteady, srec, served, sdup>>
    /\ UNCHANGED <<poolVars, reqVars, cntVars, hcVars>>
    /\ UNCHANGED <<lcCalled, lcPeer, qVars, seqLog, gsVars, lcsVars, guVars>>

\* atomic.StoreUint64(&s.current, uint64(idx))
SelStore(s) ==
    /\ spc[s] = "store"
    /\ current' = speer[s]
    /\ spc' = [spc EXCEPT ![s] = "returned"]
    /\ UNCHANGED <<snext, si, speer, sval, sseen, sreads, ssteady, srec,
                   served, sdup>>
    /\ UNCHANGED <<nBackends, alive, connCount, started, beVars>>
    /\ UNCHANGED <<lcCalled, lcPeer, qVars, seqLog, gsVars, lcsVars, guVars>>
    /\ UNCHANGED <<reqVars, cntVars, hcVars>>

\* The caller takes the result; the goroutine is free for its next call.
SelDone(s) ==
    /\ spc[s] = "returned"
    /\ spc' = [spc EXCEPT ![s] = "idle"]
    /\ served' = IF srec THEN [served EXCEPT ![sval[s]] = speer[s]] ELSE served
    /\ snext' = [snext EXCEPT ![s] = 0]
    /\ si' = [si EXCEPT ![s] = 0]
    /\ speer' = [speer EXCEPT ![s] = Nil]
    /\ sval' = [sval EXCEPT ![s] = 0]
    /\ sseen' = [sseen EXCEPT ![s] = {}]
    /\ sreads' = [sreads EXCEPT ![s] = 0]
    /\ ssteady' = [ssteady EXCEPT ![s] = {}]
    /\ UNCHANGED <<srec, sdup>>
    /\ UNCHANGED <<poolVars, reqVars, cntVars, hcVars>>
    /\ UNCHANGED <<lcCalled, lcPeer, qVars, seqLog, gsVars, lcsVars, guVars>>

\* GetLeastConnPeer begins: var best *Backend; var min uint64 = ^uint64(0)
LCBegin ==
    /\ started
    /\ lpc = "idle"
    /\ lpc' = "loop"
    /\ lk' = 0
    /\ lbest' = Nil
    /\ lmin' = UintMax
    /\ lsteady' = AliveNow
    /\ UNCHANGED <<poolVars, reqVars, cntVars, hcVars>>
    /\ UNCHANGED <<lcCalled, lcPeer, qVars, seqLog, gsVars, selVars, guVars>>

LCSkipsDead(b) == IsAlive(b)

\* if !b.IsAlive() { continue }
LCSkips(b) == ~IsAlive(b)

\* The head of a turn of the range loop, on backend lk: the flag is read
\* under the backend's read lock, which is released before the count is
\* read; a dead backend is passed. After the last backend, return best.
LCTurn ==
    /\ lpc = "loop"
    /\ IF lk < nBackends
          THEN /\ lpc' = IF LCSkips(lk) THEN "loop" ELSE "count"
               /\ lk' = IF LCSkips(lk) THEN lk + 1 ELSE lk
               /\ UNCHANGED lmin
          ELSE /\ lpc' = "returned"
               /\ lk' = 0
               /\ lmin' = 0
    /\ UNCHANGED <<lbest, lsteady>>
    /\ UNCHANGED <<poolVars, reqVars, cntVars, hcVars>>
    /\ UNCHANGED <<lcCalled, lcPeer, qVars, seqLog, gsVars, selVars, guVars>>

\* c := b.GetConnCount(); if best == nil || c < min { best = b; min = c }
\* for the backend whose flag was read true, whatever the flag is by now
LCCount ==
    /\ lpc = "count"
    /\ IF lbest = Nil \/ GetConnCount(lk) < lmin
          THEN lbest' = lk /\ lmin' = GetConnCount(lk)
          ELSE UNCHANGED <<lbest, lmin>>
    /\ lk' = lk + 1
    /\ lpc' = "loop"
    /\ UNCHANGED lsteady
    /\ UNCHANGED <<poolVars, reqVars, cntVars, hcVars>>
    /\ UNCHANGED <<lcCalled, lcPeer, qVars, seqLog, gsVars, selVars, guVars>>

\* The caller takes the result.
LCDone ==
    /\ lpc = "returned"
    /\ lpc' = "idle"
    /\ lbest' = Nil
    /\ lsteady' = {}
    /\ UNCHANGED <<lk, lmin>>
    /\ UNCHANGED <<poolVars, reqVars, cntVars, hcVars>>
    /\ UNCHANGED <<lcCalled, lcPeer, qVars, seqLog, gsVars, selVars, guVars>>

\* The GetNextPeer calls of the other requests in flight, however many, as
\* the two writes they make to the cursor: the atomic increment of NextIndex
OtherNextIndex ==
    /\ started
    /\ nBackends > 0
    /\ current' = AddUint(current, 1)
    /\ UNCHANGED <<nBackends, alive, connCount, started, beVars>>
    /\ UNCHANGED <<reqVars, cntVars, hcVars, lcVars>>

\* and the skip-ahead store of the index of a backend such a call read alive
OtherStore(b) ==
    /\ started
    /\ b \in Backends
    /\ current' = b
    /\ UNCHANGED <<nBackends, alive, connCount, started, beVars>>
    /\ UNCHANGED <<reqVars, cntVars, hcVars, lcVars>>

\* The goroutine whose selection calls are followed step by step; it runs
\* one call at a time, of either function.
Watched == CHOOSE s \in Sels : TRUE

NextSel ==
    \/ (lpc \in {"idle", "returned"} /\ SelNextIndex(Watched))
    \/ SelScan(Watched)
    \/ SelStore(Watched)
    \/ SelDone(Watched)
    \/ OtherNextIndex
    \/ \E b \in Slots : OtherStore(b)
    \/ (spc[Watched] = "idle" /\ LCBegin)
    \/ LCTurn
    \/ LCCount
    \/ LCDone
    \/ \E b \in Slots, a \in BOOLEAN : SetAlive(b, a)

SpecSel == InitRecord /\ [][NextSel]_vars

\* ------------------------------------------------- pool uptime under change
\* A goroutine (the /stats handler's) runs the pool's GetUpTime while the
\* clock moves and SetAlive is called: each locked read is one step.

\* var totalUpTime uint64; var aliveCount uint64
GUBegin ==
    /\ started
    /\ gpc = "idle"
    /\ gpc' = "alive"
    /\ gk' = 0
    /\ gtotal' = 0
    /\ gcount' = 0
    /\ UNCHANGED gres
    /\ UNCHANGED <<poolVars, reqVars, cntVars, hcVars>>
    /\ UNCHANGED <<lcCalled, lcPeer, qVars, seqLog, gsVars, selVars, lcsVars>>

\* for _, b := range s.Backends { if b.IsAlive() {
GUAlive ==
    /\ gpc = "alive"
    /\ gk < nBackends
    /\ IF IsAlive(gk)
          THEN gpc' = "uptime" /\ UNCHANGED gk
          ELSE gk' = gk + 1 /\ UNCHANGED gpc
    /\ UNCHANGED <<gtotal, gcount, gres>>
    /\ UNCHANGED <<poolVars, reqVars, cntVars, hcVars>>
    /\ UNCHANGED <<lcCalled, lcPeer, qVars, seqLog, gsVars, selVars, lcsVars>>

\* totalUpTime += b.GetUpTimeInSeconds(); aliveCount++ } }
GUUpTime ==
    /\ gpc = "uptime"
    /\ gtotal' = gtotal + GetUpTimeInSeconds(gk)
    /\ gcount' = gcount + 1
    /\ gk' = gk + 1
    /\ gpc' = "alive"
    /\ UNCHANGED gres
    /\ UNCHANGED <<poolVars, reqVars, cntVars, hcVars>>
    /\ UNCHANGED <<lcCalled, lcPeer, qVars, seqLog, gsVars, selVars, lcsVars>>

\* if aliveCount == 0 { return "0s" }
\* return formatSecondsToDuration(totalUpTime / aliveCount)
GUReturn ==
    /\ gpc = "alive"
    /\ gk >= nBackends
    /\ gres' = IF gcount = 0 THEN ZeroS
                ELSE formatSecondsToDuration(gtotal \div gcount)
    /\ gpc' = "returned"
    /\ UNCHANGED <<gk, gtotal, gcount>>
    /\ UNCHANGED <<poolVars, reqVars, cntVars, hcVars>>
    /\ UNCHANGED <<lcCalled, lcPeer, qVars, seqLog, gsVars, selVars, lcsVars>>

\* The caller takes the result.
GUDone ==
    /\ gpc = "returned"
    /\ gpc' = "idle"
    /\ gk' = 0
    /\ gtotal' = 0
    /\ gcount' = 0
    /\ gres' = ZeroS
    /\ UNCHANGED <<poolVars, reqVars, cntVars, hcVars>>
    /\ UNCHANGED <<lcCalled, lcPeer, qVars, seqLog, gsVars, selVars, lcsVars>>

NextAvg ==
    \/ Tick
    \/ \E b \in Slots, a \in BOOLEAN : CallSetAlive(b, a)
    \/ GUBegin
    \/ GUAlive
    \/ GUUpTime
    \/ GUReturn
    \/ GUDone

SpecAvg == InitRecord /\ [][NextAvg]_vars

\* ---------------------------------------------------- GetStats under change
\* A goroutine (the /stats handler's) runs GetStats while other goroutines
\* call SetAlive and SetMemoryUsage: each getter takes and releases the
\* backend's lock, and the pool holds no lock of its own, so each getter is
\* one step and the writers run in between.

\* var stats []BackendStats
GSBegin ==
    /\ started
    /\ tpc = "idle"
    /\ tpc' = "alive"
    /\ tk' = 0
    /\ stCalled' = FALSE
    /\ stats' = << >>
    /\ UNCHANGED <<talive, tup>>
    /\ UNCHANGED <<upFor, upRes, puCalled, puSecs, puText, lcCalled, lcPeer>>
    /\ UNCHANGED <<seqLog, selVars, lcsVars, guVars>>
    /\ UNCHANGED <<poolVars, reqVars, cntVars, hcVars>>

\* for _, b := range s.Backends { ... Alive: b.IsAlive(),
GSAlive ==
    /\ tpc = "alive"
    /\ tk < nBackends
    /\ talive' = IsAlive(tk)
    /\ tpc' = "uptime"
    /\ UNCHANGED <<tk, tup>>
    /\ UNCHANGED <<qVars, lcCalled, lcPeer, seqLog, selVars, lcsVars, guVars>>
    /\ UNCHANGED <<poolVars, reqVars, cntVars, hcVars>>

\* UpTime: b.GetUpTime(),
GSUpTime ==
    /\ tpc = "uptime"
    /\ tup' = GetUpTime(tk)
    /\ tpc' = "memory"
    /\ UNCHANGED <<tk, talive>>
    /\ UNCHANGED <<qVars, lcCalled, lcPeer, seqLog, selVars, lcsVars, guVars>>
    /\ UNCHANGED <<poolVars, reqVars, cntVars, hcVars>>

\* MemoryUsage: b.GetMemoryUsageString(), and the append of the snapshot
GSMemory ==
    /\ tpc = "memory"
    /\ stats' = StatsStep(stats, [URL |-> Addr(tk),
                                  Alive |-> talive,
                                  UpTime |-> tup,
                                  MemoryUsage |-> GetMemoryUsageString(tk)])
    /\ tk' = tk + 1
    /\ tpc' = "alive"
    /\ talive' = FALSE
    /\ tup' = ZeroS
    /\ UNCHANGED <<upFor, upRes, puCalled, puSecs, puText, stCalled, lcCalled, lcPeer>>
    /\ UNCHANGED <<seqLog, selVars, lcsVars, guVars>>
    /\ UNCHANGED <<poolVars, reqVars, cntVars, hcVars>>

\* return stats
GSReturn ==
    /\ tpc = "alive"
    /\ tk >= nBackends
    /\ stCalled' = TRUE
    /\ tpc' = "idle"
    /\ tk' = 0
    /\ UNCHANGED <<talive, tup>>
    /\ UNCHANGED <<upFor, upRes, puCalled, puSecs, puText, stats, lcCalled, lcPeer>>
    /\ UNCHANGED <<seqLog, selVars, lcsVars, guVars>>
    /\ UNCHANGED <<poolVars, reqVars, cntVars, hcVars>>

\* The pool is wired as TestServerPool_Uptime wires it, with backends of
\* either flag that were started ten seconds ago. Its user then calls the
\* selectors and the reporting functions one after another, GetStats last and
\* one getter at a time; while GetStats runs, the monitor's SetAlive and a
\* stats goroutine's SetMemoryUsage write backends.
NextSnap ==
    \/ \E a \in BOOLEAN :
          /\ nBackends < MaxMonitored
          /\ Wiring
          /\ AddBackend(a, now - TenSeconds)
    \/ Serve
    \/ (Len(seqLog) < nBackends /\ CallNext)
    \/ (started /\ CallLeastConn)
    \/ (started /\ CallPoolUpTime)
    \/ (Len(seqLog) = nBackends /\ lcCalled /\ puCalled /\ ~stCalled /\ GSBegin)
    \/ GSAlive
    \/ GSUpTime
    \/ GSMemory
    \/ GSReturn
    \/ \E b \in Slots, a \in BOOLEAN : tpc # "idle" /\ CallSetAlive(b, a)
    \/ \E b \in Slots : tpc # "idle" /\ SetMemoryUsage(b, ReportedMem)

SpecSnap == Init /\ [][NextSnap]_vars

\* ------------------------------------------------ rotation under contention
\* Every backend is alive and stays so; the request goroutines call
\* GetNextPeer at the same time, again and again, and the rotation is put on
\* record until the cursor wraps.
InitRotPool ==
    /\ nBackends \in 1 .. MaxBackends
    /\ current = 0
    /\ alive = [b \in Slots |-> b < nBackends]
    /\ connCount = [b \in Slots |-> 0]
    /\ started = TRUE
    /\ InitFields

InitRot ==
    /\ InitRotPool /\ InitReqs /\ InitCnt /\ InitHC
    /\ lcCalled = FALSE /\ lcPeer = Nil /\ NoQueries /\ NoCallers
    /\ srec = TRUE

NextRot == \E s \in Sels : SelNextIndex(s) \/ SelScan(s) \/ SelDone(s)

SpecRot == InitRot /\ [][NextRot]_vars

\* ------------------------------------------------------------------ claims

\* C1: when GetNextPeer has returned on a non-empty pool and no liveness flag
\* changed since the call began, the result is an alive backend if some
\* backend is alive, and nil if every backend is dead.
C1_NextPeerAliveOrNil ==
    \A r \in Reqs :
        (rpc[r] = "returned" /\ rstable[r] /\ nBackends > 0) =>
            IF \E b \in Backends : alive[b]
              THEN rpeer[r] \in Backends /\ alive[rpeer[r]]
              ELSE rpeer[r] = Nil

\* C1 witness: a call that had to skip a dead backend returned an alive one
\* that lies before its starting index (the scan wrapped).
C1_Witness ==
    \E r \in Reqs :
        /\ rpc[r] = "returned" /\ rstable[r]
        /\ rpeer[r] # Nil /\ rpeer[r] < rnext[r]
        /\ ~alive[rnext[r]]

\* C3: a non-favicon request that ended with no peer selected was answered 503.
C3_NoPeerGives503 ==
    \A r \in Reqs :
        (rpc[r] \in {"done", "panicked"} /\ rpath[r] # Favicon /\ rpeer[r] = Nil)
            => rresp[r] = StatusServiceUnavailable

\* C4: each backend's connection counter equals the number of requests that
\* are being proxied to it.
InFlight(b) == {r \in Reqs : rpc[r] = "proxy" /\ rpeer[r] = b}

C4_ConnCountIsInFlight ==
    \A b \in Backends : connCount[b] = Cardinality(InFlight(b))

\* C2: GetLeastConnPeer returns nil exactly when no backend is alive, and
\* otherwise the alive backend with the smallest connection count, the one
\* with the lowest pool index among those that share it; dead backends do not
\* count, whatever their counters.
C2_LeastConnPick ==
    lcCalled =>
        IF \E b \in Backends : alive[b]
          THEN /\ lcPeer \in Backends
               /\ alive[lcPeer]
               /\ \A b \in Backends : alive[b] =>
                      /\ connCount[lcPeer] <= connCount[b]
                      /\ b < lcPeer => connCount[b] > connCount[lcPeer]
          ELSE lcPeer = Nil

\* C2 witness: the call returned a backend although a dead one has a lower
\* count and a later alive one has the same count.
C2_Witness ==
    /\ lcCalled
    /\ lcPeer \in Backends
    /\ \E b \in Backends : ~alive[b] /\ connCount[b] < connCount[lcPeer]
    /\ \E b \in Backends : b > lcPeer /\ alive[b] /\ connCount[b] = connCount[lcPeer]

\* C5: under any interleaving of IncConn and DecConn calls the counter never
\* wraps below zero (it never exceeds the number of completed increments),
\* and a DecConn that reads the counter at 0 returns leaving it at 0.
C5_NoUnderflow ==
    /\ [](connCount[0] <= incDone)
    /\ [][\A t \in Threads :
            (cpc[t] = "dec_load" /\ connCount[0] = 0 /\ cpc'[t] # "dec_load")
                => (cpc'[t] = "idle" /\ connCount'[0] = 0)]_vars

\* C5 witness: a DecConn call is about to read a counter that is 0 after
\* increments and decrements have both happened.
C5_Witness ==
    \E t \in Threads :
        /\ scenario = "free"
        /\ cpc[t] = "dec_load" /\ connCount[0] = 0
        /\ incDone > 0 /\ decDone = incDone

\* C6: in the phased run the counter is exactly N once the N concurrent
\* IncConn calls have completed and exactly 0 once the N concurrent DecConn
\* calls that follow have completed.
C6_PhasedCounts ==
    scenario = "phased" =>
        /\ (\A t \in Threads : cops[t] = 1 /\ cpc[t] = "idle")
               => connCount[0] = NumThreads
        /\ (\A t \in Threads : cops[t] = 2 /\ cpc[t] = "idle")
               => connCount[0] = 0

\* C6 witness: the phased run is over: every goroutine has completed its
\* IncConn and its DecConn, and N swaps succeeded.
C6_Witness ==
    /\ scenario = "phased"
    /\ \A t \in Threads : cops[t] = 2 /\ cpc[t] = "idle"
    /\ incDone = NumThreads /\ decDone = NumThreads

\* C7: a probe of a backend that answers with a status outside [200,400), or
\* that cannot be reached, classifies it dead (and one that answers inside
\* the range, alive).
C7_ProbeClassifies ==
    hcPc = "check" => (hcAlive <=> (hcSeen >= 200 /\ hcSeen < 400))

\* C8: never more stats-refresh jobs in execution than the worker pool has
\* workers.
C8_BoundedStatsJobs == TotalJobs <= NumWorkers

\* C9: when every worker is busy and the queue (capacity: the backend count)
\* is full, the liveness loop starts no further refresh: it skips the backend.
C9_FullQueueSkips ==
    [][TotalJobs >= NumWorkers + nBackends => TotalJobs' <= TotalJobs]_vars

\* C10: once the cancellation signal is raised, healthCheck eventually
\* returns and no stats task is left running.
C10_CancelStopsMonitor ==
    cancelled ~> (hcPc = "returned" /\ TotalJobs = 0)

\* C11: across any sequence of SetAlive calls a backend's start time is set
\* to the current time in exactly the steps that take it from dead to alive;
\* SetAlive(false), and SetAlive(true) on a backend that is alive, leave it as
\* it was.
C11_StartTimeResetOnRevival ==
    [][\A b \in Backends :
          IF ~alive[b] /\ alive'[b]
            THEN startTime'[b] = now
            ELSE startTime'[b] = startTime[b]]_vars

\* C11 witness: a backend was revived after the wiring and has stayed alive
\* while time went on.
C11_Witness ==
    \E b \in Backends : alive[b] /\ startTime[b] > 0 /\ startTime[b] < now

\* C17: GetUpTimeInSeconds returns 0 for a backend that is not alive, and for
\* an alive one the whole seconds (never negative) elapsed since its current
\* alive streak began: the flag and the start time it reads belong together.
C17_UpTimeOfCurrentStreak ==
    upFor # Nil =>
        /\ upRes >= 0
        /\ upRes = IF alive[upFor]
                     THEN (now - streak[upFor]) \div TicksPerSecond
                     ELSE 0

\* C17 witness: the call returned a whole second for a backend that is in a
\* later streak than its first.
C17_Witness ==
    /\ upFor # Nil
    /\ alive[upFor] /\ streak[upFor] > 0
    /\ upRes > 0
    /\ (now - streak[upFor]) % TicksPerSecond # 0

\* In this step one of b's refresh jobs ends, and the answer it was given is
\* r: an answer that it had set aside, or the one the backend gives now.
EndsAnswered(b, r) ==
    /\ jobs'[b] < jobs[b]
    /\ IF held'[b] # held[b]
         THEN CopiesIn(r, held'[b]) < CopiesIn(r, held[b])
         ELSE r = Response(b)

\* C12: a stats refresh that ends in a transport error, a status outside 2xx
\* or a body that does not decode leaves the stored memory usage, the
\* liveness flags, the start times and the connection counts as they were.
C12_FailedRefreshKeepsMemory ==
    [][\A b \in Backends, r \in Responses :
          (/\ EndsAnswered(b, r)
           /\ \/ r.status = NoConn
              \/ r.status < 200 \/ r.status >= 300
              \/ ~r.body.valid)
          => /\ memoryUsage' = memoryUsage
             /\ alive' = alive
             /\ startTime' = startTime
             /\ connCount' = connCount]_vars

\* C12 witness: a refresh is under way for a backend that holds a memory
\* figure from an earlier refresh and now answers 500, with a body that
\* would report another figure.
C12_Witness ==
    \E b \in Backends :
        /\ Fetching(b) > 0
        /\ srv[b] = StatusInternalServerError
        /\ memoryUsage[b] = StoredMem
        /\ health[b] = Report(ReportedMem)

\* C13: a refresh answered 200 with a JSON object that lacks the memory_usage
\* field leaves the stored memory usage as it was.
C13_MissingFieldKeepsMemory ==
    [][\A b \in Backends :
          EndsAnswered(b, [status |-> StatusOK, body |-> NoField])
              => memoryUsage'[b] = memoryUsage[b]]_vars

\* C14: the rotation cursor never decreases, except by wrapping from the
\* largest unsigned value to 0.
C14_CursorMonotonic ==
    [][current' >= current \/ (current = UintMax /\ current' = 0)]_vars

\* C14, amended: the cursor is written in two ways only: a GetNextPeer call
\* adds one to it (wrapping at the largest unsigned value), and a call that
\* skipped dead backends stores the index of the backend it returns, a value
\* below the pool length that may be lower than the cursor was.
C14_CursorWrites ==
    [][current' # current =>
          \/ current' = (current + 1) % UintMod
          \/ \E r \in Reqs :
                /\ rpc[r] = "store" /\ rpc'[r] = "returned"
                /\ rpeer[r] \in Backends
                /\ current' = rpeer[r]]_vars

\* C14 witness: a call that ran alone started at an index, wrapped past the
\* end of the pool and stored the lower index it returns: the cursor, which
\* pointed at the starting index, went down.
C14_Witness ==
    \E r \in Reqs :
        /\ rpc[r] = "returned" /\ rsolo[r]
        /\ rpeer[r] # Nil /\ rpeer[r] < rnext[r]
        /\ current = rpeer[r]

\* C15: when a GetNextPeer call during which no other call wrote the cursor
\* has returned a backend, the cursor modulo the pool length is that
\* backend's index; and on [dead, alive, alive] with the call starting at
\* index 0 it has returned backend 1 and left the cursor at 1.
C15_CursorAtReturnedPeer ==
    \A r \in Reqs :
        (rpc[r] = "returned" /\ rsolo[r]) =>
            /\ rpeer[r] # Nil => current % nBackends = rpeer[r]
            /\ (/\ rstable[r] /\ nBackends = 3 /\ rnext[r] = 0
                /\ ~alive[0] /\ alive[1] /\ alive[2])
                   => (rpeer[r] = 1 /\ current = 1)

\* C15 witness: on [dead, alive, alive] a call that started at index 0 has
\* returned, with no other call and no liveness change in between.
C15_Witness ==
    \E r \in Reqs :
        /\ rpc[r] = "returned" /\ rsolo[r] /\ rstable[r]
        /\ nBackends = 3 /\ rnext[r] = 0
        /\ ~alive[0] /\ alive[1] /\ alive[2]
        /\ rpeer[r] = 1

\* C16: when a liveness cycle has completed, every backend's stored flag is
\* the result of that cycle's probe of it; once the monitor is past the
\* comparison and the SetAlive call of a backend, before it goes on to the
\* next one, the stored flag is the probe's result (a dead backend whose probe
\* succeeded is alive before the cycle ends), and a flag changes in no step
\* but the monitor's SetAlive call, so a backend whose probes keep failing
\* stays dead once a cycle has marked it.
C16_FlagFollowsProbe ==
    /\ [](hcPc = "wait" =>
             \A b \in Backends :
                 probed[b] # "none" => (alive[b] <=> probed[b] = "up"))
    /\ [](hcPc = "go" => alive[hcIdx] = hcAlive)
    /\ [][\A b \in Backends :
            alive'[b] # alive[b] =>
                (hcPc = "set" /\ hcIdx = b /\ alive'[b] = hcAlive)]_vars

\* C16 witness: a cycle has completed in which one backend was probed down
\* and is stored dead although an earlier cycle found it alive (a refresh of
\* its memory usage ran), and another was probed up and is stored alive.
C16_Witness ==
    /\ hcPc = "wait"
    /\ \E b \in Backends :
           probed[b] = "down" /\ ~alive[b] /\ memoryUsage[b] = ReportedMem
    /\ \E b \in Backends : probed[b] = "up" /\ alive[b]

\* C18: the pool's GetUpTime returns "0s" when no backend is alive and
\* otherwise the hours, minutes and seconds of the whole-number average of
\* the alive backends' uptimes; the pool's GetUpTimeInSeconds returns the sum
\* of the uptimes of the alive backends, dead ones adding nothing.
UpSeconds(b) == (now - startTime[b]) \div TicksPerSecond

RECURSIVE SumUp(_)
SumUp(S) ==
    IF S = {} THEN 0
    ELSE LET b == CHOOSE x \in S : TRUE IN UpSeconds(b) + SumUp(S \ {b})

AliveSet == {b \in Backends : alive[b]}

C18_PoolUpTime ==
    puCalled =>
        /\ puSecs = SumUp(AliveSet)
        /\ IF AliveSet = {}
             THEN puText.text = "0s"
             ELSE /\ puText.text = "hms"
                  /\ puText.m < 60 /\ puText.s < 60
                  /\ puText.h * 3600 + puText.m * 60 + puText.s
                         = SumUp(AliveSet) \div Cardinality(AliveSet)

\* C18 witness: the call returned an average of an hour or more that is not
\* the exact quotient, over a pool that has a dead backend with time on its
\* clock.
C18_Witness ==
    /\ puCalled
    /\ puText.text = "hms" /\ puText.h > 0
    /\ SumUp(AliveSet) % Cardinality(AliveSet) # 0
    /\ \E b \in Backends : ~alive[b] /\ UpSeconds(b) > 0

\* C19: GetStats returns one snapshot per backend, in pool order, each with
\* the backend's address, aliveness, uptime, memory usage and current
\* connection count.
StatFields == {"URL", "Alive", "UpTime", "MemoryUsage"}

C19_SnapshotHasConnCount ==
    stCalled =>
        /\ Len(stats) = nBackends
        /\ \A i \in 1 .. Len(stats) :
              /\ StatFields \subseteq DOMAIN stats[i]
              /\ stats[i].URL = Addr(i - 1)
              /\ "ConnCount" \in DOMAIN stats[i]
              /\ stats[i].ConnCount = connCount[i - 1]

\* C20: a request for /favicon.ico is answered 404 with no peer selected, in
\* one step that leaves the rotation cursor, every connection count and every
\* liveness flag as they were, whatever the pool is like.
C20_FaviconTouchesNothing ==
    /\ [](\A r \in Reqs :
             rpath[r] = Favicon =>
                 (rpc[r] = "done" /\ rresp[r] = StatusNotFound /\ rpeer[r] = Nil))
    /\ [][\A r \in Reqs :
            (rpath[r] # Favicon /\ rpath'[r] = Favicon) =>
                (current' = current /\ connCount' = connCount /\ alive' = alive)]_vars

\* C20 witness: a favicon request has been answered 404 on a pool whose
\* backends are all dead and whose cursor earlier selections had advanced.
C20_Witness ==
    \E r \in Reqs :
        /\ rpath[r] = Favicon /\ rresp[r] = StatusNotFound
        /\ nBackends > 0 /\ current > 0
        /\ \A b \in Backends : ~alive[b]

\* The backend a rotation starting at index start comes to first: the alive
\* backend at the least cyclic distance from start, Nil if none is alive.
CyclicFirstAlive(start) ==
    IF AliveSet = {} THEN Nil
    ELSE LET d == CHOOSE d \in 0 .. nBackends - 1 :
                      /\ alive[(start + d) % nBackends]
                      /\ \A e \in 0 .. d - 1 : ~alive[(start + e) % nBackends]
         IN  (start + d) % nBackends

\* C21: with liveness fixed and calls made one after another, each GetNextPeer
\* call returns the first alive backend at or cyclically after (cursor+1) mod
\* size, and with k alive backends every k consecutive calls return k different
\* backends, each alive one once.
C21_RotationInPoolOrder ==
    /\ \A j \in 1 .. Len(seqLog) :
          seqLog[j].peer = CyclicFirstAlive((seqLog[j].cur + 1) % nBackends)
    /\ LET k == Cardinality(AliveSet)
       IN  \A j \in 1 .. Len(seqLog) - k + 1 :
               k > 0 => {seqLog[h].peer : h \in j .. j + k - 1} = AliveSet

\* C22: a GetNextPeer call on a pool of n >= 1 backends reads the liveness of
\* at most n backends and of no pool index twice, and it is never held up
\* before it returns, whatever the cursor value, the liveness changes and the
\* cursor writes of other calls that happen meanwhile.
C22_ScanBounded ==
    \A s \in Sels :
        /\ sreads[s] <= nBackends
        /\ Cardinality(sseen[s]) = sreads[s]
        /\ spc[s] \in {"scan", "store"} => ENABLED (SelScan(s) \/ SelStore(s))

\* A call has read every backend of a pool of several, and returned, while a
\* backend of the pool is alive: liveness changed under the scan.
C22_Witness ==
    \E s \in Sels :
        /\ spc[s] = "returned"
        /\ nBackends > 1
        /\ sreads[s] = nBackends
        /\ speer[s] = Nil
        /\ AliveSet # {}

\* C28: when some backend is alive from the beginning of a selection call to its
\* return, GetNextPeer and GetLeastConnPeer return a backend and not nil,
\* whatever the monitor does to the other backends and whatever other calls
\* write to the cursor meanwhile; and a backend a call returns is one the call
\* read, and read as alive: GetNextPeer returns the backend in the step that
\* reads its flag, and GetLeastConnPeer makes a backend its best only in the
\* turn that began by reading that backend's flag as true, the flag being
\* free to change before the count is read.
C28_SteadyBackendIsFound ==
    /\ [](\A s \in Sels :
             /\ (spc[s] = "returned" /\ ssteady[s] # {}) => speer[s] # Nil
             /\ speer[s] # Nil => speer[s] \in sseen[s])
    /\ []((lpc = "returned" /\ lsteady # {}) => lbest # Nil)
    /\ [][\A s \in Sels :
            (speer'[s] # Nil /\ speer'[s] # speer[s]) => alive[speer'[s]]]_vars
    /\ [][(lbest' # Nil /\ lbest' # lbest) => (lpc = "count" /\ lbest' = lk)]_vars
    /\ [][(lpc' = "count" /\ lpc # "count") =>
             (lpc = "loop" /\ lk' = lk /\ alive[lk])]_vars
    /\ [][(lpc = "count" /\ lpc' = "count") => lk' = lk]_vars

\* Both calls have returned a backend that was not alive all along, past a
\* dead backend, while another backend stayed alive from beginning to end;
\* the one GetLeastConnPeer returned is dead again.
C28_Witness ==
    \E s \in Sels :
        /\ spc[s] = "returned"
        /\ speer[s] # Nil
        /\ sreads[s] > 1
        /\ ssteady[s] # {}
        /\ speer[s] \notin ssteady[s]
        /\ lpc = "returned"
        /\ lbest # Nil
        /\ lsteady # {}
        /\ lbest \notin lsteady
        /\ ~alive[lbest]

\* The cursor values w+1 .. w+len, when each has been given out and its call
\* has returned
Window(w, len) == (w + 1) .. (w + len)

Complete(w, len) ==
    /\ w + len <= UintMax
    /\ \A v \in Window(w, len) : served[v] # Nil

\* C27: with every backend alive and before the cursor wraps, concurrent
\* GetNextPeer calls never make a skip-ahead store, each gets a cursor value
\* no other call got, and out of any n*m calls with consecutive cursor values
\* each backend is returned exactly m times.
C27_FairUnderContention ==
    srec =>
        /\ ~sdup
        /\ \A s \in Sels : spc[s] # "store"
        /\ \A w \in 0 .. UintMax, m \in 1 .. UintMax :
               Complete(w, nBackends * m) =>
                   \A b \in Backends :
                       Cardinality({v \in Window(w, nBackends * m) :
                                       served[v] = b}) = m

\* NumSel rounds of the largest pool are complete while the call that got
\* the cursor value just before them is still scanning.
C27_Witness ==
    /\ srec
    /\ nBackends = MaxBackends
    /\ \E s \in Sels :
          /\ spc[s] = "scan"
          /\ Complete(sval[s], nBackends * NumSel)

\* C23: when the monitor's comparison finds the probe result different from
\* the stored flag it logs exactly one status-change line and then calls
\* SetAlive once, with the probe result; when the two are equal it goes on
\* with nothing logged and nothing called; the monitor logs and calls only
\* after a comparison that found a difference, and no step but its SetAlive
\* call changes a flag or a startTime.
C23_SetAliveOnlyOnChange ==
    /\ [][(hcPc = "check" /\ hcPc' # "check") =>
             IF alive[hcIdx] # hcAlive
               THEN hcPc' = "log" /\ hcLog' = << >>
               ELSE hcPc' = "go" /\ hcLog' = << >>]_vars
    /\ [][(hcPc = "log" /\ hcPc' # "log") =>
             /\ hcPc' = "set"
             /\ hcLog' = <<LogLine(hcIdx, hcAlive)>>]_vars
    /\ [][(hcPc = "set" /\ hcPc' # "set") =>
             /\ hcPc' = "go"
             /\ hcLog' = <<LogLine(hcIdx, hcAlive), SetAliveCall(hcIdx, hcAlive)>>
             /\ alive' = [alive EXCEPT ![hcIdx] = hcAlive]]_vars
    /\ [](hcPc \in {"log", "set"} => alive[hcIdx] # hcAlive)
    /\ [][hcLog' # hcLog => (hcPc \in {"log", "set"} \/ hcLog' = << >>)]_vars
    /\ [](hcPc \in {"wait", "probe", "check"} => hcLog = << >>)
    /\ [][(alive' # alive \/ startTime' # startTime) => hcPc = "set"]_vars

\* The monitor has logged that the second backend went down and has called
\* SetAlive(false) on it, and has not reached its go statement yet; the first
\* backend, found up with its flag set, was passed with nothing logged and
\* its refresh is running.
C23_Witness ==
    /\ hcPc = "go"
    /\ hcIdx = 1
    /\ hcLog = <<LogLine(1, FALSE), SetAliveCall(1, FALSE)>>
    /\ ~alive[1]
    /\ probed[1] = "down"
    /\ alive[0]
    /\ probed[0] = "up"
    /\ jobs[0] > 0

\* C25: a liveness probe or a stats-refresh job that has been started can
\* always come to its end, whatever the backend does, a backend that accepts
\* the connection and never answers included.
C25_StartedJobsCanFinish ==
    /\ hcPc = "probe" => ENABLED HCProbe
    /\ \A b \in Backends : Fetching(b) > 0 => ENABLED StatsFetch(b)

\* C26: the pool's GetUpTime counts a backend in its divisor only with an
\* uptime read while the backend is alive, whatever SetAlive does while the
\* call runs: no backend that turned dead after its IsAlive read is counted
\* with an uptime of 0.
C26_CountedWhileAlive ==
    [][(gpc = "uptime" /\ gcount' = gcount + 1) => alive[gk]]_vars

\* C24: once the wiring is over the pool keeps its backends: its length never
\* changes (a backend is its index, and its address a function of the index);
\* a call of GetLeastConnPeer, of the pool's GetUpTimeInSeconds and GetUpTime
\* or of GetStats changes nothing in the pool, and a call of GetNextPeer
\* changes nothing but the rotation cursor.
C24_MembershipFixed ==
    /\ [][started => (started' /\ nBackends' = nBackends)]_vars
    /\ [][(lcCalled' # lcCalled \/ puCalled' # puCalled
              \/ tpc' # tpc \/ stCalled' # stCalled \/ stats' # stats)
             => UNCHANGED poolVars]_vars
    /\ [][(seqLog' # seqLog \/ current' # current)
             => UNCHANGED <<nBackends, alive, connCount, started, beVars>>]_vars

\* On a full pool every reader has been called and has returned, GetStats
\* while backends were written, and GetNextPeer has been called once per
\* backend; alive and dead backends are present.
C24_Witness ==
    /\ started
    /\ nBackends = MaxMonitored
    /\ lcCalled
    /\ puCalled
    /\ stCalled
    /\ Len(seqLog) = nBackends
    /\ Len(stats) = nBackends
    /\ current # 0
    /\ \E b \in Backends : memoryUsage[b] = ReportedMem
    /\ AliveSet # {}
    /\ AliveSet # Backends

====
